---- MODULE Spec2Model ----
(***************************************************************************)
(* A model of the bad-proxy fault-decision engine (cmd/server/main.go):    *)
(* the configuration store, the statistics tracker, the forced-error       *)
(* override, the probabilistic selection, and the handlers that touch      *)
(* them (proxyRequest, POST /config, GET /reset-stats).                    *)
(*                                                                         *)
(* Probabilities are float64 in the source.  Here they are fixed-point     *)
(* integers in units of 1/One, and a draw of rand.Float64() is an integer  *)
(* r standing for r/One, so every comparison of the source is an exact     *)
(* integer comparison.  Go slices are 0-based: slot i of the source is     *)
(* element i+1 of the sequence.                                            *)
(***************************************************************************)
EXTENDS Integers, Sequences, FiniteSets, TLC

VARIABLES config, configMutex, stats, statsMutex, req, upd, view, hist, run, last

vars == <<config, configMutex, stats, statsMutex, req, upd, view, hist, run, last>>

----------------------------------------------------------------------------
(* Bounds of the model *)

\* the fixed-point unit: the float 1.0 of the source
One == 100

\* requests admitted between two resets in Spec
MaxTotal == 2

\* requests admitted between two resets in SpecStreak
MaxStreakTotal == 22

\* largest window size of SpecStreak
MaxStreakWindow == 3

\* the window size of SpecDecide
DecideWindowSize == 2
MaxEngineWindow == 2
MaxRequests == 2
RequestWindowSize == 2
MaxBodyLength == 20
MaxRateRequests == 3

\* the window size of config at process start, and of a body without one
DefaultWindowSize == 100

Workers == {1, 2}
Viewers == {5}
Updaters == {3, 4}

NoFault == ""
FaultKinds == <<"disconnect", "error500", "error400", "no_backend", "corrupt">>
Labels == {NoFault, "disconnect", "error500", "error400", "no_backend", "corrupt"}
RateKeys == {"disconnect", "500", "400", "no_backend", "corrupt"}

Min(a, b) == IF a < b THEN a ELSE b

----------------------------------------------------------------------------
(* The configuration *)

ProxyConfig(lat, clat, nb, e5, e4, d, c, ws, fe) ==
    [Latency |-> lat, ConnectLatency |-> clat, NoBackend |-> nb,
     Error500 |-> e5, Error400 |-> e4, Disconnect |-> d, Corrupt |-> c,
     WindowSize |-> ws, ForceErrors |-> fe]

\* var config = ProxyConfig{...}
InitConfig == ProxyConfig(0, 0, 0, 0, 0, 0, 0, DefaultWindowSize, TRUE)

\* a JSON body of POST /config: a number that is left out reads as 0, and
\* force_errors is "true", "false" or "absent"
JsonBody(lat, clat, nb, e5, e4, d, c, ws, fe) ==
    [latency |-> lat, connect_latency |-> clat, no_backend |-> nb,
     p500 |-> e5, p400 |-> e4, disconnect |-> d, corrupt |-> c,
     error_window_size |-> ws, force_errors |-> fe]

\* the body {}
EmptyBody == JsonBody(0, 0, 0, 0, 0, 0, 0, 0, "absent")

\* var newConfig ProxyConfig; c.ShouldBindJSON(&newConfig): the fields the
\* body names are set, the others keep the zero value of their type
ShouldBindJSON(body) ==
    ProxyConfig(body.latency, body.connect_latency, body.no_backend,
                body.p500, body.p400, body.disconnect, body.corrupt,
                body.error_window_size, body.force_errors = "true")

\* the bodies POST /config is called with in Spec
ConfigBodies ==
    { JsonBody(1, 0, 0, 60, 0, 0, 0, 2, "true"),
      EmptyBody }

\* a handler that stores the window size as it was sent
NormalizeWindowSize_Keep(body) == body

\* if newConfig.WindowSize <= 0 { newConfig.WindowSize = 100 }
NormalizeWindowSize(body) ==
    IF body.WindowSize <= 0
    THEN [body EXCEPT !.WindowSize = DefaultWindowSize]
    ELSE body

----------------------------------------------------------------------------
(* The statistics *)

\* make([]string, n)
MakeSlots(n) == [i \in 1..n |-> NoFault]

\* ErrorStats{RecentErrors: make([]string, n), CurrentRates: make(map)}
NewStats(n) ==
    [Total |-> 0, SuccessCount |-> 0, NoBackendCount |-> 0,
     Error500Count |-> 0, Error400Count |-> 0, DisconnectCount |-> 0,
     CorruptCount |-> 0, CurrentRates |-> [k \in {} |-> <<0, 1>>],
     RecentErrors |-> MakeSlots(n), RecentTotal |-> 0]

\* counters that leave out the requests without a fault
updateErrorStats_FaultsOnly(errorType, st) ==
    CASE errorType = "disconnect" -> [st EXCEPT !.DisconnectCount = @ + 1]
      [] errorType = "error500"   -> [st EXCEPT !.Error500Count = @ + 1]
      [] errorType = "error400"   -> [st EXCEPT !.Error400Count = @ + 1]
      [] errorType = "no_backend" -> [st EXCEPT !.NoBackendCount = @ + 1]
      [] errorType = "corrupt"    -> [st EXCEPT !.CorruptCount = @ + 1]
      [] OTHER                    -> st

updateErrorStats(errorType, st) ==
    CASE errorType = "disconnect" -> [st EXCEPT !.DisconnectCount = @ + 1]
      [] errorType = "error500"   -> [st EXCEPT !.Error500Count = @ + 1]
      [] errorType = "error400"   -> [st EXCEPT !.Error400Count = @ + 1]
      [] errorType = "no_backend" -> [st EXCEPT !.NoBackendCount = @ + 1]
      [] errorType = "corrupt"    -> [st EXCEPT !.CorruptCount = @ + 1]
      [] errorType = NoFault      -> [st EXCEPT !.SuccessCount = @ + 1]
      [] OTHER                    -> st

\* the number of slots of the whole slice that hold the label
CountLabel(recentErrors, label) ==
    Cardinality({i \in 1..Len(recentErrors) : recentErrors[i] = label})

\* rates whose denominator is always the window size
updateErrorRates_WindowDenominator(st, windowSize) ==
    LET RateOf(k) ==
            CASE k = "disconnect" -> CountLabel(st.RecentErrors, "disconnect")
              [] k = "500"        -> CountLabel(st.RecentErrors, "error500")
              [] k = "400"        -> CountLabel(st.RecentErrors, "error400")
              [] k = "no_backend" -> CountLabel(st.RecentErrors, "no_backend")
              [] k = "corrupt"    -> CountLabel(st.RecentErrors, "corrupt")
    IN  [st EXCEPT
           !.RecentTotal = IF st.Total > windowSize THEN windowSize ELSE st.Total,
           !.CurrentRates = [k \in RateKeys |-> <<RateOf(k), windowSize>>]]

\* A rate float64(count) / float64(recentCount) is kept as <<count, recentCount>>.
updateErrorRates(st, windowSize) ==
    LET recentCount == IF st.Total > windowSize THEN windowSize ELSE st.Total
        withTotal == [st EXCEPT !.RecentTotal = recentCount]
        RateOf(k) ==
            CASE k = "disconnect" -> CountLabel(st.RecentErrors, "disconnect")
              [] k = "500"        -> CountLabel(st.RecentErrors, "error500")
              [] k = "400"        -> CountLabel(st.RecentErrors, "error400")
              [] k = "no_backend" -> CountLabel(st.RecentErrors, "no_backend")
              [] k = "corrupt"    -> CountLabel(st.RecentErrors, "corrupt")
    IN  IF recentCount = 0
        THEN withTotal
        ELSE [withTotal EXCEPT
                !.CurrentRates = [k \in RateKeys |-> <<RateOf(k), recentCount>>]]

\* the slot at which the backward loop breaks: the last slot that is not "",
\* or 0 when the loop runs off the front of the slice
LastFaultSlot(recentErrors) ==
    LET faults == {i \in 1..Len(recentErrors) : recentErrors[i] # NoFault}
    IN  IF faults = {} THEN 0
        ELSE CHOOSE i \in faults : \A j \in faults : j <= i

\* for i := len(recentErrors) - 1; i >= 0; i-- { "" counts, anything else
\* breaks }: the number of slots behind the last slot that is not ""
countSuccessiveNoErrors(recentErrors) ==
    Len(recentErrors) - LastFaultSlot(recentErrors)

----------------------------------------------------------------------------
(* The decision *)

\* a maximum without the upper clamp at 20
calculateMaxAllowedSuccessive_NoUpperClamp(disconnectProb, error500Prob, error400Prob, noBackendProb, corruptProb) ==
    LET totalErrorProb == disconnectProb + error500Prob + error400Prob
                          + noBackendProb + corruptProb
        maxSuccessive == (5 * One) \div totalErrorProb
    IN  IF totalErrorProb <= 0 THEN 0
        ELSE IF totalErrorProb >= One THEN 1
        ELSE IF maxSuccessive < 5 THEN 5
        ELSE maxSuccessive

calculateMaxAllowedSuccessive(disconnectProb, error500Prob, error400Prob, noBackendProb, corruptProb) ==
    LET totalErrorProb == disconnectProb + error500Prob + error400Prob
                          + noBackendProb + corruptProb
        maxSuccessive == (5 * One) \div totalErrorProb
    IN  IF totalErrorProb <= 0 THEN 0
        ELSE IF totalErrorProb >= One THEN 1
        ELSE IF maxSuccessive < 5 THEN 5
        ELSE IF maxSuccessive > 20 THEN 20
        ELSE maxSuccessive

RECURSIVE ForcedScan(_, _, _, _, _)
\* the first loop: skip prob <= 0, add, return at randomVal < cumulativeProb;
\* randomVal = (r / One) * totalProb, so the test is r * totalProb < cum * One
ForcedScan(probabilities, i, cumulativeProb, r, totalProb) ==
    IF i > Len(probabilities) THEN "fallthrough"
    ELSE IF probabilities[i] <= 0
         THEN ForcedScan(probabilities, i + 1, cumulativeProb, r, totalProb)
         ELSE IF r * totalProb < (cumulativeProb + probabilities[i]) * One
              THEN FaultKinds[i]
              ELSE ForcedScan(probabilities, i + 1,
                              cumulativeProb + probabilities[i], r, totalProb)

RECURSIVE LastPositive(_, _)
\* the second loop: the last kind with a positive probability
LastPositive(probabilities, i) ==
    IF i < 1 THEN NoFault
    ELSE IF probabilities[i] > 0 THEN FaultKinds[i]
    ELSE LastPositive(probabilities, i - 1)

\* a forced selection whose draw is not scaled by totalProb
selectForcedErrorType_Unscaled(disconnectProb, error500Prob, error400Prob, noBackendProb, corruptProb, r) ==
    LET probabilities == <<disconnectProb, error500Prob, error400Prob,
                           noBackendProb, corruptProb>>
        scanned == ForcedScan(probabilities, 1, 0, r, One)
    IN  IF disconnectProb + error500Prob + error400Prob + noBackendProb
           + corruptProb <= 0 THEN NoFault
        ELSE IF scanned # "fallthrough" THEN scanned
        ELSE LastPositive(probabilities, Len(probabilities))

selectForcedErrorType(disconnectProb, error500Prob, error400Prob, noBackendProb, corruptProb, r) ==
    LET totalProb == disconnectProb + error500Prob + error400Prob
                     + noBackendProb + corruptProb
        probabilities == <<disconnectProb, error500Prob, error400Prob,
                           noBackendProb, corruptProb>>
        scanned == ForcedScan(probabilities, 1, 0, r, totalProb)
    IN  IF totalProb <= 0 THEN NoFault
        ELSE IF scanned # "fallthrough" THEN scanned
        ELSE LastPositive(probabilities, Len(probabilities))

RECURSIVE CumulativeScan(_, _, _, _)
\* the five if-blocks of proxyRequest: a kind is looked at only when no
\* earlier kind fired and its probability is > 0; it adds its probability
\* to cumulativeProb and fires when randomVal < cumulativeProb
CumulativeScan(probabilities, i, cumulativeProb, r) ==
    IF i > Len(probabilities) THEN NoFault
    ELSE IF probabilities[i] > 0
         THEN IF r < cumulativeProb + probabilities[i]
              THEN FaultKinds[i]
              ELSE CumulativeScan(probabilities, i + 1,
                                  cumulativeProb + probabilities[i], r)
         ELSE CumulativeScan(probabilities, i + 1, cumulativeProb, r)

\* a selection that compares with <= and looks at kinds of probability 0
probabilisticSelection_Inclusive(cfg, r) ==
    LET p == <<cfg.Disconnect, cfg.Error500, cfg.Error400, cfg.NoBackend,
               cfg.Corrupt>>
        sum(i) == IF i = 1 THEN p[1]
                  ELSE IF i = 2 THEN p[1] + p[2]
                  ELSE IF i = 3 THEN p[1] + p[2] + p[3]
                  ELSE IF i = 4 THEN p[1] + p[2] + p[3] + p[4]
                  ELSE p[1] + p[2] + p[3] + p[4] + p[5]
        hit == {i \in 1..5 : r <= sum(i)}
    IN  IF hit = {} THEN NoFault
        ELSE FaultKinds[CHOOSE i \in hit : \A j \in hit : i <= j]

\* a selection that tests each kind against its own probability
probabilisticSelection_Independent(cfg, r) ==
    LET p == <<cfg.Disconnect, cfg.Error500, cfg.Error400, cfg.NoBackend,
               cfg.Corrupt>>
        hit == {i \in 1..5 : p[i] > 0 /\ r < p[i]}
    IN  IF hit = {} THEN NoFault
        ELSE FaultKinds[CHOOSE i \in hit : \A j \in hit : i <= j]

probabilisticSelection(cfg, r) ==
    CumulativeScan(<<cfg.Disconnect, cfg.Error500, cfg.Error400,
                     cfg.NoBackend, cfg.Corrupt>>, 1, 0, r)

\* an override that does not look at forceErrors
overrideFires_IgnoresFlag(cfg, recentErrors) ==
    LET maxAllowedSuccessiveSuccess ==
            calculateMaxAllowedSuccessive(cfg.Disconnect, cfg.Error500,
                cfg.Error400, cfg.NoBackend, cfg.Corrupt)
    IN  /\ countSuccessiveNoErrors(recentErrors) >= maxAllowedSuccessiveSuccess
        /\ maxAllowedSuccessiveSuccess > 0

\* if successiveNoErrors >= maxAllowedSuccessiveSuccess && maxAllowedSuccessiveSuccess > 0
overrideFires(cfg, recentErrors) ==
    LET maxAllowedSuccessiveSuccess ==
            calculateMaxAllowedSuccessive(cfg.Disconnect, cfg.Error500,
                cfg.Error400, cfg.NoBackend, cfg.Corrupt)
    IN  /\ cfg.ForceErrors
        /\ countSuccessiveNoErrors(recentErrors) >= maxAllowedSuccessiveSuccess
        /\ maxAllowedSuccessiveSuccess > 0

\* errorType as lines 264-320 leave it, for the draw r of the path taken.
\* A forced selection that returns "" still sets applyError, so the
\* probabilistic path is skipped.
decideErrorType(cfg, recentErrors, r) ==
    IF overrideFires(cfg, recentErrors)
    THEN selectForcedErrorType(cfg.Disconnect, cfg.Error500, cfg.Error400,
                               cfg.NoBackend, cfg.Corrupt, r)
    ELSE probabilisticSelection(cfg, r)

----------------------------------------------------------------------------
(* The state *)

\* a request worker before its request has arrived
IdleRequest ==
    [pc |-> "idle", method |-> "GET", cfg |-> InitConfig, ord |-> 0,
     recentPos |-> 0, streak |-> 0, maxAllowed |-> 0, rnd |-> 0,
     errorType |-> NoFault, slept |-> {}, logged |-> <<>>,
     backend |-> FALSE, bodyLen |-> 0, written |-> 0, response |-> "none"]

\* a POST /config handler before it has bound its body
IdleUpdate ==
    [pc |-> "idle", body |-> EmptyBody, newConfig |-> InitConfig,
     oldWindowSize |-> 0]

\* a GET /config handler before it has taken its copies.  currentStats is
\* the struct copy; sliceShared and mapShared say that its RecentErrors and
\* CurrentRates still are the slice and the map the tracker writes to;
\* snapshot is the tracker at the instant of the copy (history field).
IdleView ==
    [pc |-> "idle", currentConfig |-> InitConfig,
     currentStats |-> NewStats(0), sliceShared |-> FALSE,
     mapShared |-> FALSE, snapshot |-> NewStats(0), report |-> NewStats(0)]

\* the draws of rand.Float64() taken in Spec and SpecStreak
SampleDraws == {0, One - 1}

\* c.Request.Method of the requests that arrive in SpecRequest, SpecStreak
\* and SpecDecide
Methods == {"GET", "POST", "PUT"}

\* the last operation that completed on the tracker (history variable); a
\* request completes when it releases statsMutex
LastOp(op, size) == [op |-> op, size |-> size]

\* the number of decisions the history variable hist keeps
HistCap == IF MaxTotal > MaxStreakWindow THEN MaxTotal ELSE MaxStreakWindow

\* the decisions recorded since the last reset or resize, oldest first,
\* at most the HistCap newest of them (history variable)
Remember(h, entry) ==
    LET all == Append(h, entry)
    IN  IF Len(all) > HistCap
        THEN SubSeq(all, Len(all) - HistCap + 1, Len(all))
        ELSE all

\* sync.RWMutex: the goroutine holding the write lock (0: none) and those
\* holding a read lock
FreeRWMutex == [writer |-> 0, readers |-> {}]

Init ==
    /\ config = InitConfig
    /\ configMutex = FreeRWMutex
    /\ stats = NewStats(DefaultWindowSize)
    /\ statsMutex = 0
    /\ req = [w \in Workers |-> IdleRequest]
    /\ upd = [u \in Updaters |-> IdleUpdate]
    /\ view = [g \in Viewers |-> IdleView]
    /\ hist = <<>>
    /\ run = 0
    /\ last = LastOp("start", 0)

\* a lock that excludes nobody
StatsLockFree_NoExclusion == TRUE

\* statsMutex.Lock() returns only when nobody holds the mutex
StatsLockFree == statsMutex = 0

\* configMutex.RLock() returns only when nobody holds the write lock
ConfigReadLockFree == configMutex.writer = 0

\* a write lock that does not wait for the readers
ConfigWriteLockFree_IgnoresReaders == configMutex.writer = 0

\* configMutex.Lock() returns only when nobody holds the lock in either mode
ConfigWriteLockFree == configMutex.writer = 0 /\ configMutex.readers = {}

----------------------------------------------------------------------------
(* proxyRequest *)

\* a check that lets every method through
MethodAllowed_Any(method) == TRUE

\* !(Method != http.MethodGet && Method != http.MethodPost)
MethodAllowed(method) == method = "GET" \/ method = "POST"

\* the method check fails: 405, return
RejectMethod(w, methods) ==
    /\ req[w].pc = "idle"
    /\ \E m \in methods :
         /\ ~MethodAllowed(m)
         /\ req' = [req EXCEPT ![w] = [IdleRequest EXCEPT !.pc = "done",
                                                          !.method = m,
                                                          !.response = "405"]]
    /\ UNCHANGED <<config, configMutex, stats, statsMutex, upd, hist, run, last, view>>

\* the method check passes; configMutex.RLock(); the reads of latency,
\* connectLatency and the five probabilities.  methods are the methods of
\* the requests that arrive.
ReadConfig(w, methods) ==
    /\ req[w].pc = "idle"
    /\ ConfigReadLockFree
    /\ \E m \in methods :
         /\ MethodAllowed(m)
         /\ req' = [req EXCEPT ![w] =
               [IdleRequest EXCEPT
                  !.pc = "reading", !.method = m,
                  !.cfg = [config EXCEPT
                             !.ForceErrors = InitConfig.ForceErrors,
                             !.WindowSize = InitConfig.WindowSize]]]
    /\ configMutex' = [configMutex EXCEPT !.readers = @ \cup {w}]
    /\ UNCHANGED <<config, stats, statsMutex, upd, hist, run, last, view>>

\* a read lock that is not given back
ConfigRUnlock_Kept(readers, w) == readers

\* configMutex.RUnlock() by w
ConfigRUnlock(readers, w) == readers \ {w}

\* the reads of forceErrors and windowSize; configMutex.RUnlock()
ReadConfigRest(w) ==
    /\ req[w].pc = "reading"
    /\ req' = [req EXCEPT ![w].pc = "admitted",
                          ![w].cfg.ForceErrors = config.ForceErrors,
                          ![w].cfg.WindowSize = config.WindowSize]
    /\ configMutex' = [configMutex EXCEPT !.readers = ConfigRUnlock(@, w)]
    /\ UNCHANGED <<config, stats, statsMutex, upd, hist, run, last, view>>

\* a position that is not clamped to the slice
RecentPos_NoClamp(total, windowSize, slots) == total % windowSize

\* recentPos := stats.Total % windowSize, clamped to the last slot
RecentPos(total, windowSize, slots) ==
    IF total % windowSize >= Len(slots) THEN Len(slots) - 1
    ELSE total % windowSize

\* statsMutex.Lock(); stats.Total++; recentPos; the override and the
\* probabilistic selection.  cap bounds the requests admitted, draws are the
\* values of the one draw the path taken uses.
Decide(w, cap, draws) ==
    /\ req[w].pc = "admitted"
    /\ StatsLockFree
    /\ stats.Total < cap
    /\ \E r \in draws :
         LET cfg == req[w].cfg
             total == stats.Total + 1
         IN  /\ stats' = [stats EXCEPT !.Total = total]
             /\ req' = [req EXCEPT ![w] =
                   [@ EXCEPT
                      !.pc = "decided",
                      !.ord = total,
                      !.recentPos = RecentPos(total, cfg.WindowSize,
                                              stats.RecentErrors),
                      !.streak = IF cfg.ForceErrors
                                 THEN countSuccessiveNoErrors(stats.RecentErrors)
                                 ELSE 0,
                      !.maxAllowed =
                          IF cfg.ForceErrors
                          THEN calculateMaxAllowedSuccessive(cfg.Disconnect,
                                   cfg.Error500, cfg.Error400, cfg.NoBackend,
                                   cfg.Corrupt)
                          ELSE 0,
                      !.rnd = r,
                      !.errorType = decideErrorType(cfg, stats.RecentErrors, r)]]
    /\ statsMutex' = w
    /\ UNCHANGED <<config, configMutex, upd, hist, run, last, view>>

\* an unlock that is deferred to the return of the handler
StatsUnlock_Deferred(w) == w

\* statsMutex.Unlock() by w: nobody holds the mutex
StatsUnlock(w) == 0

\* stats.RecentErrors[recentPos] = errorType; updateErrorStats;
\* updateErrorRates; statsMutex.Unlock().  With served, the rest of the
\* handler, which writes neither config nor stats and takes no lock, is
\* part of the step.
Record(w, served) ==
    /\ req[w].pc = "decided"
    /\ LET errorType == req[w].errorType
           written == [stats EXCEPT
                         !.RecentErrors[req[w].recentPos + 1] = errorType]
       IN  /\ stats' = updateErrorRates(updateErrorStats(errorType, written),
                                        req[w].cfg.WindowSize)
           /\ hist' = Remember(hist, [ord |-> req[w].ord, label |-> errorType])
           /\ run' = IF errorType = NoFault THEN run + 1 ELSE 0
    /\ statsMutex' = StatsUnlock(w)
    /\ req' = [req EXCEPT ![w] =
                   IF served THEN IdleRequest
                   ELSE [@ EXCEPT !.pc = "recorded",
                                  !.recentPos = 0, !.streak = 0,
                                  !.maxAllowed = 0, !.rnd = 0]]
    /\ last' = LastOp("request", 0)
    /\ UNCHANGED <<config, configMutex, upd, view>>

\* if connectLatency > 0 { time.Sleep(connectLatency) }: the worker sleeps
ConnectDelay(w) ==
    /\ req[w].pc = "recorded"
    /\ req[w].cfg.ConnectLatency > 0
    /\ req' = [req EXCEPT ![w].pc = "sleepConnect",
                          ![w].slept = @ \cup {"connect"}]
    /\ UNCHANGED <<config, configMutex, stats, statsMutex, upd, hist, run, last, view>>

\* the worker is past the connect latency
PastConnect(w) ==
    \/ req[w].pc = "recorded" /\ req[w].cfg.ConnectLatency <= 0
    \/ req[w].pc = "sleepConnect"

\* what hijacker.Hijack() can answer: the connection, or an error (the
\* connection was hijacked before, or its buffered reader fails).  gin's
\* ResponseWriter always is an http.Hijacker.
HijackOutcomes == {"hijacked", "failed"}

\* errorType == "disconnect": the connection is hijacked and closed; when
\* it cannot be hijacked, c.AbortWithStatus(500) sends a bare 500
Disconnect(w) ==
    /\ PastConnect(w)
    /\ req[w].errorType = "disconnect"
    /\ \E outcome \in HijackOutcomes :
         req' = [req EXCEPT ![w].pc = "done",
                            ![w].logged = Append(@, stats.Total),
                            ![w].response = IF outcome = "hijacked"
                                            THEN "closed" ELSE "abort500"]
    /\ UNCHANGED <<config, configMutex, stats, statsMutex, upd, hist, run, last, view>>

\* the kinds answered by the proxy itself after time.Sleep(latency)
AnsweredKinds == {"no_backend", "error400", "error500"}

\* errorType is no_backend, error400 or error500: time.Sleep(latency)
DelayFault(w) ==
    /\ PastConnect(w)
    /\ req[w].errorType \in AnsweredKinds
    /\ req' = [req EXCEPT ![w].pc = "sleepLatency",
                          ![w].logged = Append(@, stats.Total),
                          ![w].slept = @ \cup {"latency"}]
    /\ UNCHANGED <<config, configMutex, stats, statsMutex, upd, hist, run, last, view>>

\* c.JSON(200 | 400 | 500, ...); return
RespondFault(w) ==
    /\ req[w].pc = "sleepLatency"
    /\ req[w].errorType \in AnsweredKinds
    /\ req' = [req EXCEPT ![w].pc = "done",
                          ![w].response =
                              CASE req[w].errorType = "no_backend" -> "200-proxy"
                                [] req[w].errorType = "error400" -> "400"
                                [] req[w].errorType = "error500" -> "500"]
    /\ UNCHANGED <<config, configMutex, stats, statsMutex, upd, hist, run, last, view>>

\* kinds that send every request to the backend
ForwardedKinds_All == Labels \ {"disconnect"}

\* the kinds that reach the code after the four returning branches
ForwardedKinds == {NoFault, "corrupt"}

\* if latency > 0 && connectLatency == 0 { time.Sleep(latency) }
DelayForward(w) ==
    /\ PastConnect(w)
    /\ req[w].errorType \in ForwardedKinds
    /\ req[w].cfg.Latency > 0
    /\ req[w].cfg.ConnectLatency = 0
    /\ req' = [req EXCEPT ![w].pc = "sleepLatency",
                          ![w].slept = @ \cup {"latency"}]
    /\ UNCHANGED <<config, configMutex, stats, statsMutex, upd, hist, run, last, view>>

\* how forwarding can end: the request body cannot be read or the proxy
\* request cannot be built (the backend is not called), client.Do fails,
\* or the backend answers
ForwardOutcomes == {"unreadable", "unreachable", "answered"}

\* minLength := int(float64(originalLength) * 0.1), at least 1
minLength(originalLength) ==
    IF originalLength \div 10 < 1 THEN 1 ELSE originalLength \div 10

\* maxLength := int(float64(originalLength) * 0.9), at least minLength + 1
maxLength(originalLength) ==
    IF (9 * originalLength) \div 10 <= minLength(originalLength)
    THEN minLength(originalLength) + 1
    ELSE (9 * originalLength) \div 10

\* the values of rand.IntN(n)
IntN(n) == 0..(n - 1)

\* truncatedLength := minLength + rand.IntN(maxLength - minLength), for the
\* value n of the draw
truncatedLength(originalLength, n) == minLength(originalLength) + n

\* the request is forwarded.  lengths are the lengths of the bodies the
\* backend answers with.  After a corrupt decision the body is read whole
\* and, when it is not empty, its first truncatedLength bytes are written;
\* otherwise the body is copied.
Forward(w, lengths) ==
    /\ req[w].errorType \in ForwardedKinds
    /\ \/ req[w].pc = "sleepLatency"
       \/ PastConnect(w) /\ ~(req[w].cfg.Latency > 0 /\ req[w].cfg.ConnectLatency = 0)
    /\ \E outcome \in ForwardOutcomes :
         IF outcome # "answered"
         THEN req' = [req EXCEPT ![w].pc = "done",
                                 ![w].backend = outcome # "unreadable",
                                 ![w].response = "500-forward"]
         ELSE \E originalLength \in lengths :
                IF req[w].errorType = "corrupt"
                THEN \E n \in IF originalLength > 0
                               THEN IntN(maxLength(originalLength)
                                         - minLength(originalLength))
                               ELSE {0} :
                       req' = [req EXCEPT
                                 ![w].pc = "done",
                                 ![w].backend = TRUE,
                                 ![w].logged = Append(@, stats.Total),
                                 ![w].bodyLen = originalLength,
                                 ![w].written =
                                     IF originalLength > 0
                                     THEN truncatedLength(originalLength, n)
                                     ELSE 0,
                                 ![w].response = "truncated"]
                ELSE req' = [req EXCEPT ![w].pc = "done",
                                        ![w].backend = TRUE,
                                        ![w].bodyLen = originalLength,
                                        ![w].written = originalLength,
                                        ![w].response = "forwarded"]
    /\ UNCHANGED <<config, configMutex, stats, statsMutex, upd, hist, run, last, view>>

\* the handler returns
Return(w) ==
    /\ req[w].pc = "done"
    /\ req' = [req EXCEPT ![w] = IdleRequest]
    /\ UNCHANGED <<config, configMutex, stats, statsMutex, upd, hist, run, last, view>>

----------------------------------------------------------------------------
(* GET /config *)

\* configMutex.RLock(); currentConfig := config; configMutex.RUnlock()
ViewConfig(g) ==
    /\ view[g].pc = "idle"
    /\ ConfigReadLockFree
    /\ view' = [view EXCEPT ![g] = [IdleView EXCEPT !.pc = "config",
                                                    !.currentConfig = config]]
    /\ UNCHANGED <<config, configMutex, stats, statsMutex, req, upd, hist, run, last>>

\* statsMutex.RLock(); currentStats := stats; statsMutex.RUnlock(): the
\* numbers are copied, the slice and the map are shared with the tracker
ViewStats(g) ==
    /\ view[g].pc = "config"
    /\ StatsLockFree
    /\ view' = [view EXCEPT ![g].pc = "stats",
                            ![g].currentStats = stats,
                            ![g].sliceShared = TRUE,
                            ![g].mapShared = TRUE,
                            ![g].snapshot = stats]
    /\ UNCHANGED <<config, configMutex, stats, statsMutex, req, upd, hist, run, last>>

\* what the copy held by a GET /config handler reads as.  A slice or a map
\* shared with the tracker is read without synchronisation: the read sees
\* what the tracker has written since the copy (fresh) or not.
Seen(v, freshSlice, freshMap) ==
    [v.currentStats EXCEPT
       !.RecentErrors = IF v.sliceShared /\ freshSlice
                        THEN stats.RecentErrors ELSE @,
       !.CurrentRates = IF v.mapShared /\ freshMap
                        THEN stats.CurrentRates ELSE @]

\* c.JSON(200, {"config": currentConfig, "stats": currentStats}), without
\* any lock; the two copies are not used after it.  With returned the
\* handler returns in the same step.
Report(g, returned) ==
    /\ view[g].pc = "stats"
    /\ \E freshSlice \in BOOLEAN, freshMap \in BOOLEAN :
         view' = [view EXCEPT
                    ![g] = IF returned
                           THEN IdleView
                           ELSE [IdleView EXCEPT
                                   !.pc = "reported",
                                   !.snapshot = view[g].snapshot,
                                   !.report = Seen(view[g], freshSlice, freshMap)]]
    /\ UNCHANGED <<config, configMutex, stats, statsMutex, req, upd, hist, run, last>>

\* the handler returns
ViewReturn(g) ==
    /\ view[g].pc = "reported"
    /\ view' = [view EXCEPT ![g] = IdleView]
    /\ UNCHANGED <<config, configMutex, stats, statsMutex, req, upd, hist, run, last>>

\* the tracker st replaces its slice or its map: a copy v that shared it
\* keeps the old one, with the contents it has at that instant
Detached(v, st, part) ==
    IF part = "slice" /\ v.sliceShared
    THEN [v EXCEPT !.currentStats.RecentErrors = st.RecentErrors,
                   !.sliceShared = FALSE]
    ELSE IF part = "map" /\ v.mapShared
    THEN [v EXCEPT !.currentStats.CurrentRates = st.CurrentRates,
                   !.mapShared = FALSE]
    ELSE v

----------------------------------------------------------------------------
(* GET /reset-stats *)

\* statsMutex.Lock(); stats = ErrorStats{make(config.WindowSize), ...};
\* statsMutex.Unlock().  config.WindowSize is read without configMutex.
ResetStats ==
    /\ StatsLockFree
    /\ stats' = NewStats(config.WindowSize)
    /\ hist' = <<>>
    /\ run' = 0
    /\ last' = LastOp("reset", 0)
    /\ view' = [g \in Viewers |-> Detached(Detached(view[g], stats, "map"), stats, "slice")]
    /\ UNCHANGED <<config, configMutex, statsMutex, req, upd>>

----------------------------------------------------------------------------
(* POST /config *)

\* ShouldBindJSON; the WindowSize default; oldWindowSize := config.WindowSize
BindConfig(u, bodies) ==
    /\ upd[u].pc = "idle"
    /\ \E body \in bodies :
         upd' = [upd EXCEPT ![u] =
                   [pc |-> "bound", body |-> body,
                    newConfig |-> NormalizeWindowSize(ShouldBindJSON(body)),
                    oldWindowSize |-> config.WindowSize]]
    /\ UNCHANGED <<config, configMutex, stats, statsMutex, req, hist, run, last, view>>

\* configMutex.Lock(); config = newConfig; configMutex.Unlock()
StoreConfig(u) ==
    /\ upd[u].pc = "bound"
    /\ ConfigWriteLockFree
    /\ config' = upd[u].newConfig
    /\ upd' = [upd EXCEPT ![u].pc = "stored"]
    /\ UNCHANGED <<configMutex, stats, statsMutex, req, hist, run, last, view>>

\* oldWindowSize != newConfig.WindowSize: the slice is replaced under statsMutex
ResizeWindow(u) ==
    /\ upd[u].pc = "stored"
    /\ upd[u].oldWindowSize # upd[u].newConfig.WindowSize
    /\ StatsLockFree
    /\ stats' = [stats EXCEPT
                   !.RecentErrors = MakeSlots(upd[u].newConfig.WindowSize)]
    /\ hist' = <<>>
    /\ run' = 0
    /\ last' = LastOp("resize", upd[u].newConfig.WindowSize)
    /\ upd' = [upd EXCEPT ![u] = IdleUpdate]
    /\ view' = [g \in Viewers |-> Detached(view[g], stats, "slice")]
    /\ UNCHANGED <<config, configMutex, statsMutex, req>>

\* oldWindowSize == newConfig.WindowSize: the tracker is left alone
KeepWindow(u) ==
    /\ upd[u].pc = "stored"
    /\ upd[u].oldWindowSize = upd[u].newConfig.WindowSize
    /\ upd' = [upd EXCEPT ![u] = IdleUpdate]
    /\ UNCHANGED <<config, configMutex, stats, statsMutex, req, hist, run, last, view>>

----------------------------------------------------------------------------
(* The handlers running concurrently *)

Next ==
    \/ \E w \in Workers : ReadConfig(w, {"GET"})
    \/ \E w \in Workers : ReadConfigRest(w)
    \/ \E w \in Workers : Decide(w, MaxTotal, SampleDraws)
    \/ \E w \in Workers : Record(w, TRUE)
    \/ ResetStats
    \/ \E u \in Updaters : BindConfig(u, ConfigBodies)
    \/ \E u \in Updaters : StoreConfig(u)
    \/ \E u \in Updaters : ResizeWindow(u)
    \/ \E u \in Updaters : KeepWindow(u)

Spec == Init /\ [][Next]_vars

----------------------------------------------------------------------------
(* One worker under force_errors with a total fault probability of 0.2 *)

\* POST /config {"500": 0.2, "error_window_size": ws, "force_errors": true}
StreakConfig(ws) == ProxyConfig(0, 0, 0, One \div 5, 0, 0, 0, ws, TRUE)

\* the state after that POST /config at process start, before any request
InitStreak ==
    /\ \E ws \in 2..MaxStreakWindow :
         /\ config = StreakConfig(ws)
         /\ stats = NewStats(ws)
         /\ last = LastOp("resize", ws)
    /\ configMutex = FreeRWMutex
    /\ statsMutex = 0
    /\ req = [w \in Workers |-> IdleRequest]
    /\ upd = [u \in Updaters |-> IdleUpdate]
    /\ view = [g \in Viewers |-> IdleView]
    /\ hist = <<>>
    /\ run = 0

NextStreak ==
    \/ RejectMethod(1, Methods)
    \/ ReadConfig(1, Methods)
    \/ ReadConfigRest(1)
    \/ Decide(1, MaxStreakTotal, SampleDraws)
    \/ Record(1, FALSE)
    \/ DelayFault(1)
    \/ RespondFault(1)
    \/ Forward(1, {1})
    \/ Return(1)
    \/ ResetStats

SpecStreak == InitStreak /\ [][NextStreak]_vars

----------------------------------------------------------------------------
(* One decision, for every configuration, window and draw of a bounded set *)

\* every value rand.Float64() takes on the grid of step 1/One
AllDraws == 0..(One - 1)

DecideConfigs ==
    { ProxyConfig(0, 0, 0, 0, 0, 0, 0, DecideWindowSize, fe) : fe \in BOOLEAN }
    \cup
    { ProxyConfig(0, 0, 0, 60, 10, 60, 10, DecideWindowSize, FALSE),
      ProxyConfig(0, 0, 10, 20, 10, 10, 10, DecideWindowSize, FALSE),
      ProxyConfig(0, 0, 10, 20, 10, 10, 10, DecideWindowSize, TRUE),
      ProxyConfig(0, 0, 30, 0, 40, 0, 30, DecideWindowSize, TRUE) }

\* the decisions behind a window that was written once all around, oldest
\* first: request i wrote slot i % n
InRequestOrder(window) ==
    [i \in 1..Len(window) |-> window[(i % Len(window)) + 1]]

\* the trailing run of no-fault entries of a sequence of labels
TrailingNoFault(labels) ==
    Len(labels) - LastFaultSlot(labels)

\* the tracker after Len(window) requests left the labels of window
StatsAfter(window) ==
    LET filled == [NewStats(Len(window)) EXCEPT
                     !.Total = Len(window),
                     !.SuccessCount = CountLabel(window, NoFault),
                     !.NoBackendCount = CountLabel(window, "no_backend"),
                     !.Error500Count = CountLabel(window, "error500"),
                     !.Error400Count = CountLabel(window, "error400"),
                     !.DisconnectCount = CountLabel(window, "disconnect"),
                     !.CorruptCount = CountLabel(window, "corrupt"),
                     !.RecentErrors = window]
    IN  updateErrorRates(filled, Len(window))

\* the state after DecideWindowSize requests under an earlier configuration
\* of the same window size, followed by a POST /config of the configuration
\* under test (which keeps the window)
InitDecide ==
    /\ config \in DecideConfigs
    /\ \E window \in [1..DecideWindowSize -> Labels] :
         LET ordered == InRequestOrder(window)
             entries == [i \in 1..Len(window) |->
                           [ord |-> i, label |-> ordered[i]]]
         IN  /\ stats = StatsAfter(window)
             /\ hist = IF Len(entries) > HistCap
                       THEN SubSeq(entries, Len(entries) - HistCap + 1,
                                   Len(entries))
                       ELSE entries
             /\ run = TrailingNoFault(ordered)
    /\ last = LastOp("request", 0)
    /\ configMutex = FreeRWMutex
    /\ statsMutex = 0
    /\ req = [w \in Workers |-> IdleRequest]
    /\ upd = [u \in Updaters |-> IdleUpdate]
    /\ view = [g \in Viewers |-> IdleView]

NextDecide ==
    \/ RejectMethod(1, Methods)
    \/ ReadConfig(1, Methods)
    \/ ReadConfigRest(1)
    \/ Decide(1, DecideWindowSize + 1, AllDraws)
    \/ Record(1, FALSE)
    \/ Disconnect(1)
    \/ DelayFault(1)
    \/ RespondFault(1)
    \/ Forward(1, {1})
    \/ Return(1)

SpecDecide == InitDecide /\ [][NextDecide]_vars

----------------------------------------------------------------------------
(* One decision under extreme configurations *)

\* probabilities outside [0, 1] and sums outside [0, 1], in units of 1/One
ExtremeProbabilities ==
    { <<0, 0, 0, 0, 0>>,
      <<One, One, One, One, One>>,
      <<0, 60, 0, 60, 0>>,
      <<80, 30, 0, 0, 0 - 50>>,
      <<0, 0, 150, 0, 0>>,
      <<0, 20, 0, 0 - 50, 0>>,
      <<0 - 30, 90, 0, 50, 0>>,
      <<0 - 10, 0 - 10, 0 - 10, 0 - 10, 0 - 10>>,
      <<0, 0, 0, 0, 1>> }

\* the window sizes and slice lengths of SpecTotal
EngineWindowSizes == 1..MaxEngineWindow

ExtremeConfigs ==
    { ProxyConfig(0, 0, p[1], p[2], p[3], p[4], p[5], ws, fe) :
        p \in ExtremeProbabilities, ws \in EngineWindowSizes, fe \in {TRUE} }
    \cup
    { ProxyConfig(0, 0, One, One, One, One, One, ws, FALSE) :
        ws \in EngineWindowSizes }

\* draws of rand.Float64() spread over [0, 1)
EngineDraws == {0, 10, 20, 30, 40, 50, 60, 70, 80, 90, One - 1}

\* any configuration of ExtremeConfigs over any full window of a length of
\* EngineWindowSizes; the length need not be the configured window size
InitTotal ==
    /\ config \in ExtremeConfigs
    /\ \E n \in EngineWindowSizes : \E window \in [1..n -> Labels] :
         /\ stats = StatsAfter(window)
         /\ hist = <<>>
         /\ run = 0
    /\ last = LastOp("start", 0)
    /\ configMutex = FreeRWMutex
    /\ statsMutex = 0
    /\ req = [w \in Workers |-> IdleRequest]
    /\ upd = [u \in Updaters |-> IdleUpdate]
    /\ view = [g \in Viewers |-> IdleView]

NextTotal ==
    \/ RejectMethod(1, Methods)
    \/ ReadConfig(1, Methods)
    \/ ReadConfigRest(1)
    \/ Decide(1, MaxEngineWindow + 1, EngineDraws)
    \/ Record(1, FALSE)
    \/ Disconnect(1)
    \/ DelayFault(1)
    \/ RespondFault(1)
    \/ Forward(1, {1})
    \/ Return(1)

SpecTotal == InitTotal /\ [][NextTotal]_vars

----------------------------------------------------------------------------
(* One worker from the arrival of a request to the return of the handler *)

\* every kind configured, with and without the two latencies
RequestConfigs ==
    { ProxyConfig(lat, clat, 20, 20, 20, 20, 10, RequestWindowSize, TRUE) :
        lat \in {0, 1}, clat \in {0, 1} }

\* len(responseBody) of the answers of the backend in SpecRequest
BodyLengths == 0..MaxBodyLength

\* one draw for each kind and one for no fault
RequestDraws == {0, 20, 40, 60, 80, One - 1}

InitRequest ==
    /\ config \in RequestConfigs
    /\ configMutex = FreeRWMutex
    /\ stats = NewStats(RequestWindowSize)
    /\ statsMutex = 0
    /\ req = [w \in Workers |-> IdleRequest]
    /\ upd = [u \in Updaters |-> IdleUpdate]
    /\ view = [g \in Viewers |-> IdleView]
    /\ hist = <<>>
    /\ run = 0
    /\ last = LastOp("start", 0)

NextRequest ==
    \/ RejectMethod(1, Methods)
    \/ ReadConfig(1, Methods)
    \/ ReadConfigRest(1)
    \/ Decide(1, MaxRequests, RequestDraws)
    \/ Record(1, FALSE)
    \/ ConnectDelay(1)
    \/ Disconnect(1)
    \/ DelayFault(1)
    \/ RespondFault(1)
    \/ DelayForward(1)
    \/ Forward(1, BodyLengths)
    \/ Return(1)

SpecRequest == InitRequest /\ [][NextRequest]_vars

----------------------------------------------------------------------------
(* The first request under every sum of probabilities from -1 to 2 *)

\* the sums of the five probabilities, in units of 1/One
ProbabilitySums == (0 - One)..(2 * One)

\* a configuration of sum e, split over disconnect and no_backend
SumConfig(e) ==
    ProxyConfig(0, 0, e - (e \div 2), 0, 0, e \div 2, 0, DefaultWindowSize, TRUE)

InitSums ==
    /\ config \in {SumConfig(e) : e \in ProbabilitySums}
    /\ configMutex = FreeRWMutex
    /\ stats = NewStats(DefaultWindowSize)
    /\ statsMutex = 0
    /\ req = [w \in Workers |-> IdleRequest]
    /\ upd = [u \in Updaters |-> IdleUpdate]
    /\ view = [g \in Viewers |-> IdleView]
    /\ hist = <<>>
    /\ run = 0
    /\ last = LastOp("start", 0)

NextSums ==
    \/ ReadConfig(1, {"GET"})
    \/ ReadConfigRest(1)
    \/ Decide(1, MaxRequests, SampleDraws)
    \/ Record(1, FALSE)
    \/ Disconnect(1)
    \/ DelayFault(1)
    \/ RespondFault(1)
    \/ Forward(1, {1})
    \/ Return(1)

SpecSums == InitSums /\ [][NextSums]_vars

----------------------------------------------------------------------------
(* Requests that always fault, while the window shrinks and grows *)

\* POST /config {"500": 1.0, "force_errors": false} with and without
\* "error_window_size": 1
RateBodies ==
    { JsonBody(0, 0, 0, One, 0, 0, 0, 1, "false"),
      JsonBody(0, 0, 0, One, 0, 0, 0, 0, "false") }

\* the state after POST /config {"500": 1.0, "force_errors": false} at
\* process start, before any request
InitRates ==
    /\ config = ProxyConfig(0, 0, 0, One, 0, 0, 0, DefaultWindowSize, FALSE)
    /\ configMutex = FreeRWMutex
    /\ stats = NewStats(DefaultWindowSize)
    /\ statsMutex = 0
    /\ req = [w \in Workers |-> IdleRequest]
    /\ upd = [u \in Updaters |-> IdleUpdate]
    /\ view = [g \in Viewers |-> IdleView]
    /\ hist = <<>>
    /\ run = 0
    /\ last = LastOp("start", 0)

NextRates ==
    \/ ReadConfig(1, {"GET"})
    \/ ReadConfigRest(1)
    \/ Decide(1, MaxRateRequests, SampleDraws)
    \/ Record(1, TRUE)
    \/ ResetStats
    \/ BindConfig(3, RateBodies)
    \/ StoreConfig(3)
    \/ ResizeWindow(3)
    \/ KeepWindow(3)

SpecRates == InitRates /\ [][NextRates]_vars

----------------------------------------------------------------------------
(* Two workers, resets and a GET /config *)

\* POST /config {"500": 0.5, "error_window_size": RequestWindowSize,
\* "force_errors": false}
ObserveConfig ==
    ProxyConfig(0, 0, 0, One \div 2, 0, 0, 0, RequestWindowSize, FALSE)

\* the state after that POST /config at process start, before any request
InitObserve ==
    /\ config = ObserveConfig
    /\ configMutex = FreeRWMutex
    /\ stats = NewStats(RequestWindowSize)
    /\ statsMutex = 0
    /\ req = [w \in Workers |-> IdleRequest]
    /\ upd = [u \in Updaters |-> IdleUpdate]
    /\ view = [g \in Viewers |-> IdleView]
    /\ hist = <<>>
    /\ run = 0
    /\ last = LastOp("resize", RequestWindowSize)

NextObserve ==
    \/ \E w \in Workers : ReadConfig(w, {"GET"})
    \/ \E w \in Workers : ReadConfigRest(w)
    \/ \E w \in Workers : Decide(w, MaxRequests, SampleDraws)
    \/ \E w \in Workers : Record(w, FALSE)
    \/ \E w \in Workers : DelayFault(w)
    \/ \E w \in Workers : RespondFault(w)
    \/ \E w \in Workers : Forward(w, {1})
    \/ \E w \in Workers : Return(w)
    \/ ResetStats
    \/ \E g \in Viewers : ViewConfig(g)
    \/ \E g \in Viewers : ViewStats(g)
    \/ \E g \in Viewers : Report(g, FALSE)
    \/ \E g \in Viewers : ViewReturn(g)

SpecObserve == InitObserve /\ [][NextObserve]_vars

----------------------------------------------------------------------------
(* The four handlers and their locks, with fair scheduling *)

\* POST /config {"500": 1.0, "error_window_size": 1, "force_errors": false}
LockBodies == { JsonBody(0, 0, 0, One, 0, 0, 0, 1, "false") }

\* the draw of rand.Float64() taken in SpecLocks
LockDraws == {0}

NextLocks ==
    \/ \E w \in Workers : ReadConfig(w, {"GET"})
    \/ \E w \in Workers : ReadConfigRest(w)
    \/ \E w \in Workers : Decide(w, MaxRequests, LockDraws)
    \/ \E w \in Workers : Record(w, TRUE)
    \/ ResetStats
    \/ BindConfig(3, LockBodies)
    \/ StoreConfig(3)
    \/ ResizeWindow(3)
    \/ KeepWindow(3)
    \/ \E g \in Viewers : ViewConfig(g)
    \/ \E g \in Viewers : ViewStats(g)
    \/ \E g \in Viewers : Report(g, TRUE)

\* a goroutine that can run does run, and a goroutine waiting in
\* statsMutex.Lock() gets the mutex when it is released again and again
\* (sync.Mutex hands the mutex to a starving waiter)
FairLocks ==
    \A w \in Workers :
        /\ WF_vars(ReadConfigRest(w))
        /\ SF_vars(Decide(w, MaxRequests, LockDraws))
        /\ WF_vars(Record(w, TRUE))

SpecLocks == InitObserve /\ [][NextLocks]_vars /\ FairLocks

----------------------------------------------------------------------------
(* Properties *)

TotalFaultProb(cfg) ==
    cfg.Disconnect + cfg.Error500 + cfg.Error400 + cfg.NoBackend + cfg.Corrupt

MaxAllowedStreak(cfg) ==
    calculateMaxAllowedSuccessive(cfg.Disconnect, cfg.Error500, cfg.Error400,
                                  cfg.NoBackend, cfg.Corrupt)

AllSlotsNoFault == \A i \in 1..Len(stats.RecentErrors) : stats.RecentErrors[i] = NoFault

AllCountsZero ==
    /\ stats.Total = 0
    /\ stats.SuccessCount = 0
    /\ stats.NoBackendCount = 0
    /\ stats.Error500Count = 0
    /\ stats.Error400Count = 0
    /\ stats.DisconnectCount = 0
    /\ stats.CorruptCount = 0

\* every reported rate is zero, or the key is absent
RatesZeroOrAbsent == \A k \in DOMAIN stats.CurrentRates : stats.CurrentRates[k][1] = 0

\* C1 (SpecStreak): with forceErrors and a total fault probability of 0.2
\* (maxAllowedStreak 20), the run of consecutive no-fault decisions since
\* process start or the last reset is never longer than maxAllowedStreak.
C1_RunWithinMaxAllowedStreak ==
    (config.ForceErrors /\ TotalFaultProb(config) * 5 = One)
        => run <= MaxAllowedStreak(config)

\* C2 (Spec): the streak the override consults is the number of consecutive
\* no-fault decisions most recently recorded, in request order; slots never
\* written do not count.
C2_StreakIsRecentRun ==
    \A w \in Workers :
        (req[w].pc = "decided" /\ req[w].cfg.ForceErrors)
            => req[w].streak = Min(run, Len(stats.RecentErrors))

\* C3 (Spec): after reset-stats all counts are zero, every rate is zero or
\* absent, every slot is no-fault, and the streak the next decision sees is 0.
C3_ResetClearsAll ==
    (last.op = "reset" /\ statsMutex = 0)
        => /\ AllCountsZero
           /\ RatesZeroOrAbsent
           /\ AllSlotsNoFault
           /\ countSuccessiveNoErrors(stats.RecentErrors) = 0

\* C4 (Spec): right after a configuration update that changed windowSize the
\* reported rates and the recent-request count reflect zero requests.
C4_ResizeShowsNoRequests ==
    (last.op = "resize" /\ statsMutex = 0)
        => (stats.RecentTotal = 0 /\ RatesZeroOrAbsent)

\* C5 (Spec): a configuration update that changes windowSize leaves exactly
\* newSize slots, all no-fault, and a request ordinal of zero.
C5_ResizeClearsTracker ==
    (last.op = "resize" /\ statsMutex = 0)
        => /\ Len(stats.RecentErrors) = last.size
           /\ AllSlotsNoFault
           /\ stats.Total = 0

\* C6 (Spec): decisions are linearizable.  A request that has chosen its
\* fault and not yet written its slot holds the tracker alone: the counter is
\* still its ordinal, and the streak and the fault it chose are those of the
\* window as it is now; the ordinals recorded grow by exactly one.
C6_DecisionsLinearizable ==
    /\ \A w \in Workers :
         req[w].pc = "decided"
            => /\ statsMutex = w
               /\ stats.Total = req[w].ord
               /\ req[w].cfg.ForceErrors
                    => req[w].streak = countSuccessiveNoErrors(stats.RecentErrors)
               /\ req[w].errorType =
                    decideErrorType(req[w].cfg, stats.RecentErrors, req[w].rnd)
    /\ \A v, w \in Workers :
         (req[v].pc = "decided" /\ req[w].pc = "decided") => v = w
    /\ \A i \in 1..(Len(hist) - 1) : hist[i + 1].ord = hist[i].ord + 1

\* a request holds the tracker while another one waits for it, after an
\* earlier decision was recorded
C6_Witness ==
    \E v, w \in Workers :
        /\ v # w
        /\ req[v].pc = "decided"
        /\ req[w].pc = "admitted"
        /\ Len(hist) >= 1

\* the label the window should hold at slot i (0-based): that of the newest
\* of the last min(k, n) recorded decisions whose ordinal is i modulo n
ExpectedSlot(i) ==
    LET n == Len(stats.RecentErrors)
        k == Len(hist)
        recent == {j \in (k - Min(k, n) + 1)..k : hist[j].ord % n = i}
    IN  IF recent = {} THEN NoFault
        ELSE hist[CHOOSE j \in recent : \A x \in recent : x <= j].label

\* C7 (Spec): the window holds exactly the labels of the most recent
\* min(k, windowSize) decisions recorded since the last reset or resize, each
\* at slot (ordinal mod windowSize).
C7_WindowHoldsRecentDecisions ==
    \A i \in 0..(Len(stats.RecentErrors) - 1) :
        stats.RecentErrors[i + 1] = ExpectedSlot(i)

\* C8 (Spec): when no configuration update is in progress, the tracker has
\* as many slots as the current configuration's windowSize.
C8_WindowMatchesConfig ==
    (\A u \in Updaters : upd[u].pc = "idle")
        => Len(stats.RecentErrors) = config.WindowSize

AllProbabilitiesZero(cfg) ==
    /\ cfg.Disconnect = 0
    /\ cfg.Error500 = 0
    /\ cfg.Error400 = 0
    /\ cfg.NoBackend = 0
    /\ cfg.Corrupt = 0

\* C9 (SpecDecide): with every probability 0 the override does not fire and
\* the decision is no-fault, whatever forceErrors, the window and the draw.
C9_ZeroConfigNeverFaults ==
    \A w \in Workers :
        (req[w].pc = "decided" /\ AllProbabilitiesZero(req[w].cfg))
            => /\ req[w].errorType = NoFault
               /\ ~overrideFires(req[w].cfg, stats.RecentErrors)

\* a decision under the all-zero configuration with forceErrors, taken on a
\* window whose streak is positive
C9_Witness ==
    /\ req[1].pc = "decided"
    /\ AllProbabilitiesZero(req[1].cfg)
    /\ req[1].cfg.ForceErrors
    /\ req[1].streak > 0
    /\ req[1].rnd = 0

\* the sum of the first i configured probabilities, in the fixed order
CumulativeUpTo(cfg, i) ==
    LET p == <<cfg.Disconnect, cfg.Error500, cfg.Error400, cfg.NoBackend,
               cfg.Corrupt>>
        sums == <<p[1], p[1] + p[2], p[1] + p[2] + p[3],
                  p[1] + p[2] + p[3] + p[4],
                  p[1] + p[2] + p[3] + p[4] + p[5]>>
    IN  IF i = 0 THEN 0 ELSE sums[i]

\* the first kind whose cumulative probability exceeds the draw, else no-fault
FirstExceeding(cfg, r) ==
    LET over == {i \in 1..5 : r < CumulativeUpTo(cfg, i)}
    IN  IF over = {} THEN NoFault
        ELSE FaultKinds[CHOOSE i \in over : \A j \in over : i <= j]

\* disconnect = 0.6 and error500 = 0.6
Saturated(cfg) == cfg.Disconnect = 60 /\ cfg.Error500 = 60

\* C10 (SpecDecide): when the override does not fire, the decision is the
\* first kind, in the order disconnect, error-500, error-400, no-backend,
\* corrupt, whose cumulative probability exceeds the draw, else no-fault; a
\* kind behind a cumulative sum of 1 is never chosen; with disconnect = 0.6
\* and error500 = 0.6, error-500 is the decision of exactly the draws in
\* [0.6, 1), 40% of the grid.
C10_CumulativeSelection ==
    /\ \A w \in Workers :
         (req[w].pc = "decided" /\ ~overrideFires(req[w].cfg, stats.RecentErrors))
            => /\ req[w].errorType = FirstExceeding(req[w].cfg, req[w].rnd)
               /\ \A i \in 1..5 :
                    CumulativeUpTo(req[w].cfg, i - 1) >= One
                        => req[w].errorType # FaultKinds[i]
               /\ Saturated(req[w].cfg)
                    => (req[w].errorType = "error500"
                            <=> req[w].rnd \in (60..(One - 1)))
    /\ \A cfg \in {c \in DecideConfigs : Saturated(c)} :
         Cardinality({r \in AllDraws : probabilisticSelection(cfg, r) = "error500"})
             * 100 = 40 * Cardinality(AllDraws)

\* error-500 decided under disconnect = 0.6, error500 = 0.6
C10_Witness ==
    /\ req[1].pc = "decided"
    /\ Saturated(req[1].cfg)
    /\ req[1].errorType = "error500"
    /\ req[1].rnd = 60

\* the sum of the six per-kind counters
CountsSum(st) ==
    st.SuccessCount + st.NoBackendCount + st.Error500Count
    + st.Error400Count + st.DisconnectCount + st.CorruptCount

\* a worker that took statsMutex holds a decision among the six labels and a
\* position inside the slice, and can always go on to record it
EngineDecides ==
    \A w \in Workers :
        /\ (statsMutex = w) <=> (req[w].pc = "decided")
        /\ req[w].pc = "decided" =>
              /\ req[w].errorType \in Labels
              /\ req[w].recentPos + 1 \in DOMAIN stats.RecentErrors
              /\ ENABLED Record(w, FALSE)

\* the recording step writes the decision into one slot, leaves every other
\* slot alone, adds one to one counter and releases statsMutex
EngineRecords ==
    \A w \in Workers :
        (req[w].pc = "decided" /\ req'[w].pc # "decided")
            => /\ stats'.RecentErrors =
                      [stats.RecentErrors EXCEPT
                         ![req[w].recentPos + 1] = req[w].errorType]
               /\ CountsSum(stats') = CountsSum(stats) + 1
               /\ stats'.Total = stats.Total
               /\ req'[w].errorType = req[w].errorType
               /\ statsMutex' = 0

\* C11 (SpecTotal): for every configuration, however extreme, every window
\* and every draw, a request that enters the engine gets exactly one decision
\* among the six labels, records it in exactly one slot, and cannot fail or
\* keep the tracker lock.
C11_EngineTotal == []EngineDecides /\ [][EngineRecords]_vars

\* a decision recorded under a configuration with a negative probability and
\* a window size that is not the length of the slice
C11_Witness ==
    /\ req[1].pc = "recorded"
    /\ req[1].cfg.Corrupt < 0
    /\ req[1].cfg.ForceErrors
    /\ req[1].errorType = "error500"
    /\ req[1].cfg.WindowSize # Len(stats.RecentErrors)
    /\ statsMutex = 0

\* the worker has a decision and is past statsMutex.Unlock()
Served(w) == req[w].pc \in {"recorded", "sleepConnect", "sleepLatency", "done"}

\* C12 (SpecRequest): a request whose decision is disconnect never contacts
\* the backend and has zero bytes of response written, on every path.
C12_DisconnectWritesNothing ==
    \A w \in Workers :
        (Served(w) /\ req[w].errorType = "disconnect")
            => /\ ~req[w].backend
               /\ req[w].response \in {"none", "closed"}

\* C13 (SpecRequest): a decision of error500, error400 or no_backend is
\* answered with 500, 400 and the proxy's own no-backend response after
\* time.Sleep(latency), and the backend is contacted only when the decision
\* is none or corrupt.
C13_AnsweredWithoutBackend ==
    \A w \in Workers :
        /\ (req[w].pc = "done" /\ req[w].errorType \in AnsweredKinds)
              => /\ "latency" \in req[w].slept
                 /\ req[w].response =
                        CASE req[w].errorType = "error500" -> "500"
                          [] req[w].errorType = "error400" -> "400"
                          [] req[w].errorType = "no_backend" -> "200-proxy"
        /\ req[w].backend => req[w].errorType \in {NoFault, "corrupt"}
        /\ req[w].response \in {"500", "400", "200-proxy"}
              => req[w].errorType \in AnsweredKinds

\* a no_backend decision answered under both latencies
C13_Witness ==
    /\ req[1].pc = "done"
    /\ req[1].errorType = "no_backend"
    /\ req[1].response = "200-proxy"
    /\ req[1].cfg.Latency > 0
    /\ req[1].slept = {"connect", "latency"}

\* only requests with GET or POST get past the method check, and a rejected
\* request has no decision
MethodChecked ==
    \A w \in Workers :
        /\ req[w].pc \notin {"idle", "done"} => req[w].method \in {"GET", "POST"}
        /\ req[w].pc = "done" =>
              (req[w].response = "405" <=> req[w].method \notin {"GET", "POST"})
        /\ req[w].response = "405" =>
              /\ req[w].ord = 0
              /\ req[w].errorType = NoFault
              /\ ~req[w].backend

\* no step of a rejected request changes the tracker or takes its lock
RejectLeavesTracker ==
    \A w \in Workers :
        (req[w].response = "405" \/ req'[w].response = "405")
            => UNCHANGED <<stats, statsMutex>>

\* C14 (SpecRequest): a request whose method is neither GET nor POST is
\* rejected before the engine runs, and Total, the counts, the slots and the
\* rates are the same after it as before.
C14_RejectedBeforeEngine == []MethodChecked /\ [][RejectLeavesTracker]_vars

\* a PUT rejected after an earlier request was recorded as a fault
C14_Witness ==
    /\ req[1].pc = "done"
    /\ req[1].method = "PUT"
    /\ req[1].response = "405"
    /\ stats.Total = 1
    /\ stats.Error500Count = 1

\* C16 (SpecRequest): a worker sleeping for the connect latency or the
\* response latency holds neither configMutex nor statsMutex.
C16_NoSleepUnderLock ==
    \A w \in Workers :
        req[w].pc \in {"sleepConnect", "sleepLatency"}
            => /\ statsMutex # w
               /\ w \notin configMutex.readers
               /\ configMutex.writer # w

\* a worker in its response-latency sleep after its connect-latency sleep
C16_Witness ==
    /\ req[1].pc = "sleepLatency"
    /\ req[1].slept = {"connect", "latency"}
    /\ req[1].cfg.Latency > 0
    /\ req[1].cfg.ConnectLatency > 0

\* the slot label a key of CurrentRates reports
RateKeyLabel(key) ==
    CASE key = "disconnect" -> "disconnect"
      [] key = "500"        -> "error500"
      [] key = "400"        -> "error400"
      [] key = "no_backend" -> "no_backend"
      [] key = "corrupt"    -> "corrupt"

\* C15 (SpecStreak): after requests and resets under one window size, each
\* rate is the number of the last min(n, windowSize) decisions of its kind
\* over min(n, windowSize), n being the requests since the last reset.  hist
\* keeps the last HistCap >= windowSize of these n decisions.
C15_RatesOverRecentDecisions ==
    (last.op = "request" /\ statsMutex = 0)
        => LET k == Min(Len(hist), config.WindowSize)
               recent == SubSeq(hist, Len(hist) - k + 1, Len(hist))
               OfKind(key) ==
                   {i \in 1..k : recent[i].label = RateKeyLabel(key)}
           IN  /\ DOMAIN stats.CurrentRates = RateKeys
               /\ \A key \in RateKeys :
                     stats.CurrentRates[key] = <<Cardinality(OfKind(key)), k>>

\* one fault recorded, fewer requests than slots: the rate is 1/1
C15_Witness ==
    /\ last.op = "request"
    /\ statsMutex = 0
    /\ config.WindowSize > stats.Total
    /\ run = 0
    /\ stats.Total = 1
    /\ stats.CurrentRates["500"] = <<1, 1>>

\* while a worker holds the read lock, what it has read is what config holds
SnapshotHeld ==
    \A w \in Workers :
        req[w].pc = "reading"
            => /\ w \in configMutex.readers
               /\ req[w].cfg = [config EXCEPT
                                  !.ForceErrors = InitConfig.ForceErrors,
                                  !.WindowSize = InitConfig.WindowSize]

\* when a worker releases the read lock, its nine values are the
\* configuration current at that instant
SnapshotTaken ==
    \A w \in Workers :
        (req[w].pc = "reading" /\ req'[w].pc = "admitted")
            => req'[w].cfg = config /\ config' = config

\* C17 (Spec): whatever the interleaving with POST /config, the latencies,
\* probabilities, forceErrors and windowSize a request uses are the fields
\* of one configuration that was current at one instant.
C17_SnapshotFromOneConfig == []SnapshotHeld /\ [][SnapshotTaken]_vars

\* a worker between its reads while an update waits to store, and another
\* worker using a configuration that has been replaced since
C17_Witness ==
    /\ req[1].pc = "reading"
    /\ req[1].cfg.Error500 > 0
    /\ upd[3].pc = "bound"
    /\ upd[3].newConfig # config
    /\ req[2].pc = "admitted"
    /\ req[2].cfg # config

\* C18 (Spec): GET /reset-stats leaves the configuration unchanged and does
\* not change the length of the slot sequence.
C18_ResetKeepsConfigAndLength ==
    [][ResetStats => /\ config' = config
                     /\ Len(stats'.RecentErrors) = Len(stats.RecentErrors)]_vars

\* C19 (Spec): force_errors is on in the initial configuration and in the
\* configuration of every update whose body does not set it to false.
C19_ForceErrorsDefaultsOn ==
    /\ InitConfig.ForceErrors
    /\ \A u \in Updaters :
          upd[u].pc \in {"bound", "stored"}
              => (upd[u].newConfig.ForceErrors
                    <=> upd[u].body.force_errors # "false")
    /\ (\A u \in Updaters : upd[u].body.force_errors # "false")
          => config.ForceErrors

\* 5/sum rounded down, for 0 < sum: the largest q with q * sum <= 5
FiveOver(sum) ==
    CHOOSE q \in 0..(5 * One) : q * sum <= 5 * One /\ 5 * One < (q + 1) * sum

\* x clamped to [lo, hi]
Clamp(x, lo, hi) == IF x < lo THEN lo ELSE IF x > hi THEN hi ELSE x

\* C20 (SpecSums): the maximum streak a request computes is 0 for a sum of
\* probabilities <= 0, 1 for a sum >= 1 and otherwise 5/sum clamped to
\* [5, 20]: 0 at 0, 1 at 1.5, 20 at 0.01, 10 at 0.5, and always in {0, 1}
\* or 5..20.
C20_MaxAllowedStreakValues ==
    \A w \in Workers :
        req[w].pc = "decided" =>
            LET sum == TotalFaultProb(req[w].cfg)
                m == req[w].maxAllowed
            IN  /\ sum <= 0 => m = 0
                /\ sum >= One => m = 1
                /\ (0 < sum /\ sum < One) => m = Clamp(FiveOver(sum), 5, 20)
                /\ sum = 0 => m = 0
                /\ 2 * sum = 3 * One => m = 1
                /\ 100 * sum = One => m = 20
                /\ 2 * sum = One => m = 10
                /\ m \in {0, 1} \cup 5..20

\* the decision of a request under a sum of 0.5
C20_Witness ==
    /\ req[1].pc = "decided"
    /\ 2 * TotalFaultProb(req[1].cfg) = One
    /\ req[1].cfg.Disconnect > 0
    /\ req[1].cfg.NoBackend > 0
    /\ req[1].maxAllowed = 10

\* the sum of the positive ones among the first i configured probabilities,
\* in the order disconnect, error500, error400, no_backend, corrupt
PositiveCumulative(cfg, i) ==
    LET p == <<cfg.Disconnect, cfg.Error500, cfg.Error400, cfg.NoBackend,
               cfg.Corrupt>>
        upTo[j \in 0..5] ==
            IF j = 0 THEN 0
            ELSE upTo[j - 1] + (IF p[j] > 0 THEN p[j] ELSE 0)
    IN  upTo[i]

\* the position of the kind of a label in FaultKinds
KindPositions(label) == {i \in 1..5 : FaultKinds[i] = label}

\* C21 (SpecTotal): when the override fires (forceErrors, maxAllowed > 0,
\* streak >= maxAllowed) the decision is a fault whose configured
\* probability is positive: the first kind, in the fixed order, whose
\* cumulative sum over the positive probabilities exceeds the draw scaled
\* to [0, total).
C21_ForcedSelection ==
    \A w \in Workers :
        (/\ req[w].pc = "decided"
         /\ req[w].cfg.ForceErrors
         /\ req[w].maxAllowed > 0
         /\ req[w].streak >= req[w].maxAllowed)
            => LET cfg == req[w].cfg
                   p == <<cfg.Disconnect, cfg.Error500, cfg.Error400,
                          cfg.NoBackend, cfg.Corrupt>>
                   Exceeds(i) ==
                       /\ p[i] > 0
                       /\ req[w].rnd * TotalFaultProb(cfg)
                             < PositiveCumulative(cfg, i) * One
               IN  /\ req[w].errorType # NoFault
                   /\ \E i \in KindPositions(req[w].errorType) :
                         /\ Exceeds(i)
                         /\ \A j \in 1..(i - 1) : ~Exceeds(j)

\* a forced decision under a configuration with a negative probability,
\* past the first positive kind
C21_Witness ==
    /\ req[1].pc = "decided"
    /\ req[1].cfg.ForceErrors
    /\ req[1].maxAllowed = 1
    /\ req[1].streak >= 1
    /\ req[1].cfg.NoBackend < 0
    /\ req[1].cfg.Disconnect > 0
    /\ req[1].errorType = "error500"

\* every window of one slot and of two slots
OtherWindows == [1..1 -> Labels] \cup [1..2 -> Labels]

\* C22 (SpecDecide): with forceErrors off the decision is a function of the
\* probabilities and the draw alone: the same configuration and draw give
\* the decision taken here on every window of OtherWindows, whatever the
\* contents and the number of requests before.
C22_DecisionIgnoresWindow ==
    \A w \in Workers :
        (req[w].pc = "decided" /\ ~req[w].cfg.ForceErrors)
            => /\ req[w].errorType = probabilisticSelection(req[w].cfg, req[w].rnd)
               /\ \A window \in OtherWindows :
                     decideErrorType(req[w].cfg, window, req[w].rnd)
                         = req[w].errorType

\* a fault decided with forceErrors off on a window with no fault in it,
\* under probabilities that sum to more than 1
C22_Witness ==
    /\ req[1].pc = "decided"
    /\ ~req[1].cfg.ForceErrors
    /\ TotalFaultProb(req[1].cfg) > One
    /\ \A i \in DOMAIN stats.RecentErrors : stats.RecentErrors[i] = NoFault
    /\ req[1].rnd = One - 1
    /\ req[1].errorType = "error500"

\* C23 (Spec): whatever the interleaving of requests, updates that grow or
\* shrink the window, and resets, the window size a request divides by is
\* positive, the slice is never empty, and the slot a request is about to
\* write lies inside the slice as it is at that moment.
C23_IndexInRange ==
    /\ config.WindowSize > 0
    /\ Len(stats.RecentErrors) > 0
    /\ \A u \in Updaters :
          upd[u].pc \in {"bound", "stored"} => upd[u].newConfig.WindowSize > 0
    /\ \A w \in Workers :
          /\ req[w].pc \in {"admitted", "decided"} => req[w].cfg.WindowSize > 0
          /\ req[w].pc = "decided" =>
                /\ req[w].recentPos >= 0
                /\ req[w].recentPos <= Len(stats.RecentErrors) - 1

\* a request that read the window size before the window shrank: its
\* position had to be clamped to the last slot
C23_Witness ==
    /\ req[1].pc = "decided"
    /\ req[1].ord % req[1].cfg.WindowSize >= Len(stats.RecentErrors)
    /\ req[1].recentPos = Len(stats.RecentErrors) - 1
    /\ req[1].cfg.WindowSize > config.WindowSize

\* C24 (SpecRequest): after a corrupt decision, for a backend body of
\* L >= 1 bytes the bytes written are at least 1, at least 10% of L, less
\* than 90% of L and at most L; for L = 0 nothing is written.
C24_TruncationBounds ==
    \A w \in Workers :
        (req[w].pc = "done" /\ req[w].response = "truncated")
            => LET L == req[w].bodyLen
                   n == req[w].written
               IN  /\ L >= 1 => /\ n >= 1
                                /\ 10 * n >= L
                                /\ 10 * n < 9 * L
                                /\ n <= L
                   /\ L = 0 => n = 0

\* C25 (SpecRates): in every reachable state each of the five current rates
\* lies between 0 and 1 and the five rates sum to at most 1.  A rate is
\* kept as <<count, denominator>>.
C25_RatesAreFractions ==
    LET rates == stats.CurrentRates
        RateSum[keys \in SUBSET DOMAIN rates] ==
            IF keys = {} THEN 0
            ELSE LET k == CHOOSE k \in keys : TRUE
                 IN  rates[k][1] + RateSum[keys \ {k}]
    IN  \A key \in DOMAIN rates :
            /\ rates[key][2] > 0
            /\ 0 <= rates[key][1]
            /\ rates[key][1] <= rates[key][2]
            /\ RateSum[DOMAIN rates] <= rates[key][2]

\* C26 (Spec): whenever statsMutex is free, Total is the sum of the six
\* per-kind counters, after requests, resets and configuration updates.
C26_TotalIsSumOfCounts ==
    statsMutex = 0 => stats.Total = CountsSum(stats)

\* a fault and a no-fault counted, then the slice replaced by an update
C26_Witness ==
    /\ statsMutex = 0
    /\ last.op = "resize"
    /\ stats.Total = 2
    /\ stats.Error500Count = 1
    /\ stats.SuccessCount = 1

\* C27 (SpecObserve): the statistics GET /config reports are the tracker
\* of one instant, the one of its copy: Total, counts, rates and labels are
\* those of that state, whatever requests and resets run after the copy.
C27_ReportIsSnapshot ==
    \A g \in Viewers :
        view[g].pc = "reported" => view[g].report = view[g].snapshot

\* C29 (SpecObserve): the request_num logged when a fault is enacted is the
\* ordinal the request was given when its decision was recorded.
C29_LoggedOrdinal ==
    \A w \in Workers :
        \A i \in DOMAIN req[w].logged : req[w].logged[i] = req[w].ord

\* no worker holds configMutex and statsMutex together, nobody is left
\* holding the write lock, and the holder of a lock is at the step that
\* releases it and can take it
LockDiscipline ==
    /\ configMutex.writer = 0
    /\ configMutex.readers \subseteq Workers
    /\ statsMutex \in Workers \cup {0}
    /\ \A w \in Workers :
          /\ ~(w \in configMutex.readers /\ statsMutex = w)
          /\ w \in configMutex.readers
                => req[w].pc = "reading" /\ ENABLED ReadConfigRest(w)
          /\ statsMutex = w
                => req[w].pc = "decided" /\ ENABLED Record(w, TRUE)

\* a handler that waits, waits for a lock whose holder can go on
NoDeadlock ==
    /\ \A w \in Workers :
          req[w].pc = "admitted"
              => \/ ENABLED Decide(w, MaxRequests, LockDraws)
                 \/ stats.Total >= MaxRequests
                 \/ statsMutex \in Workers \ {w}
    /\ upd[3].pc = "bound"
          => ENABLED StoreConfig(3) \/ configMutex.readers # {}
    /\ upd[3].pc = "stored"
          => \/ ENABLED ResizeWindow(3)
             \/ ENABLED KeepWindow(3)
             \/ statsMutex \in Workers
    /\ \A g \in Viewers :
          view[g].pc = "config" => ENABLED ViewStats(g) \/ statsMutex \in Workers

\* an admitted request gets its decision, as long as the bound on the
\* number of requests leaves room for it
AdmittedGetsDecision ==
    \A w \in Workers :
        req[w].pc = "admitted"
            ~> (req[w].pc = "decided" \/ stats.Total >= MaxRequests)

\* C28 (SpecLocks): no handler holds configMutex and statsMutex at the same
\* time and every lock taken is released, so the handlers never deadlock
\* and every admitted request gets its decision.
C28_LocksNeverNested ==
    /\ []LockDiscipline
    /\ []NoDeadlock
    /\ AdmittedGetsDecision

\* a request waiting for statsMutex, held by the other worker, while an
\* update waits behind nobody and the GET /config handler waits for
\* statsMutex too
C28_Witness ==
    /\ req[1].pc = "admitted"
    /\ statsMutex = 2
    /\ upd[3].pc = "stored"
    /\ view[5].pc = "config"

====
